---- MODULE Spec2Model ----
(***************************************************************************)
(* Model of the Redis-backed cache handler src/app/lib/cache-handler.cjs:  *)
(* get, set, refreshTags, getExpiration and updateTags, running as         *)
(* interleaved asynchronous calls of one Node.js process against one       *)
(* shared store reached over a read connection and a write connection.     *)
(***************************************************************************)
EXTENDS Integers, Sequences, FiniteSets, TLC

\* ------------------------------------------------------------------ bounds
\* Number of events from outside the handler in one behaviour: calls made by
\* the application, advances of the clock, failures of the store or of an
\* entry producer.
MaxEvents == 3
\* The same for the wider specification.
WideEvents == 4
\* Longest payload, in bytes, of the codec specification.
MaxBytes == 4

\* Concurrent calls of the process (each is one async call in flight).
Procs == {1, 2}
\* Cache keys: the keys of the store, and the key the callers use in every
\* specification but the one of the tag index, whose callers use both.
CacheKeys == {"w1", "w2"}
CallKeys == {"w1"}
\* Tag names the callers use; a tag name is a sequence of string pieces.
TagA == <<"wines">>
TagB == <<"reds">>
Tags == {TagA, TagB}
\* A tag whose name is that of TagA followed by ":timestamp".
TagC == TagA \o <<":timestamp">>
\* Tag lists of the invalidations called and of the reads.
UpdTagLists == {<<TagB>>, <<TagA, TagB>>}
SoftTagLists == {<< >>, <<TagB>>}
\* Payloads, as the chunks the entry's stream delivers (bytes 0..255).
PayloadA == << <<97, 98, 99>> >>
PayloadB == << <<0>>, <<255>> >>
\* Times in seconds: the short and the long expire / revalidate value of the
\* entries written, the age of an entry handed over with an old timestamp, the
\* clock at the start, and the steps by which the clock advances.
Seconds == [short |-> 1, old |-> 50, long |-> 100, start |-> 100]
ShortSeconds == Seconds.short
LongSeconds == Seconds.long
OldSeconds == Seconds.old
StartSeconds == Seconds.start
TickSteps == {61}

\* --------------------------------------------------------------- constants
CACHE_PREFIX == "nextjs:cache:"
TAGS_PREFIX == "nextjs:tags:"
TIMESTAMP_SUFFIX == ":timestamp"
TagGraceSeconds == 60
MsPerSecond == 1000
NoExpiry == 0 - 1

\* ------------------------------------------------------------ store keys
\* A store key is the sequence of the string pieces concatenated in the code.
EntryKey(cacheKey) == <<CACHE_PREFIX, cacheKey>>
TagKey(tag) == <<TAGS_PREFIX>> \o tag
TimestampKey(tag) == TagKey(tag) \o <<TIMESTAMP_SUFFIX>>

\* s with the first occurrence of piece x removed (String.prototype.replace
\* with a string pattern replaces the first occurrence only).
RECURSIVE ReplaceFirst(_, _)
ReplaceFirst(s, x) ==
  IF s = << >> THEN << >>
  ELSE IF Head(s) = x THEN Tail(s)
  ELSE <<Head(s)>> \o ReplaceFirst(Tail(s), x)

\* refreshTags: the tag name recovered from a timestamp key.
TagOfTimestampKey(tagKey) ==
  ReplaceFirst(ReplaceFirst(tagKey, TAGS_PREFIX), TIMESTAMP_SUFFIX)

\* KEYS `${TAGS_PREFIX}*:timestamp`
MatchesTimestampPattern(k) ==
  /\ Len(k) >= 2
  /\ k[1] = TAGS_PREFIX
  /\ k[Len(k)] = TIMESTAMP_SUFFIX

AllKeys ==
  {EntryKey(c) : c \in CacheKeys}
    \cup {TagKey(t) : t \in Tags \cup {TagC}}
    \cup {TimestampKey(t) : t \in Tags \cup {TagC}}

\* ------------------------------------------------------------------ codec
\* Base64 text is a sequence of sextets 0..63, 64 standing for the pad '='.
Pad == 64

RECURSIVE Concat(_)
Concat(chunks) ==
  IF chunks = << >> THEN << >> ELSE Head(chunks) \o Concat(Tail(chunks))

RECURSIVE Base64Encode(_)
Base64Encode(b) ==
  IF Len(b) = 0 THEN << >>
  ELSE IF Len(b) = 1 THEN
    <<b[1] \div 4, (b[1] % 4) * 16, Pad, Pad>>
  ELSE IF Len(b) = 2 THEN
    <<b[1] \div 4, (b[1] % 4) * 16 + b[2] \div 16, (b[2] % 16) * 4, Pad>>
  ELSE
    <<b[1] \div 4, (b[1] % 4) * 16 + b[2] \div 16,
      (b[2] % 16) * 4 + b[3] \div 64, b[3] % 64>>
      \o Base64Encode(SubSeq(b, 4, Len(b)))

RECURSIVE Base64Sextets(_)
Base64Sextets(c) ==
  IF Len(c) < 2 THEN << >>
  ELSE IF Len(c) = 2 THEN <<c[1] * 4 + c[2] \div 16>>
  ELSE IF Len(c) = 3 THEN
    <<c[1] * 4 + c[2] \div 16, (c[2] % 16) * 16 + c[3] \div 4>>
  ELSE
    <<c[1] * 4 + c[2] \div 16, (c[2] % 16) * 16 + c[3] \div 4,
      (c[3] % 4) * 64 + c[4]>>
      \o Base64Sextets(SubSeq(c, 5, Len(c)))

IsSextet(x) == x # Pad

\* A decoder that takes the pad for a sextet.
Base64DecodeKeepsPad(s) == Base64Sextets(s)
Base64Decode(s) == Base64Sextets(SelectSeq(s, IsSextet))

\* now.toString() and Number.parseInt(text, 10) on decimal digits.
RECURSIVE ToDigits(_)
ToDigits(n) ==
  IF n < 10 THEN <<n>> ELSE ToDigits(n \div 10) \o <<n % 10>>

RECURSIVE ParseInt(_)
ParseInt(d) ==
  IF Len(d) = 1 THEN d[1]
  ELSE ParseInt(SubSeq(d, 1, Len(d) - 1)) * 10 + d[Len(d)]

\* ------------------------------------------------------------ store model
NoData ==
  [value |-> << >>, tags |-> << >>, stale |-> FALSE, timestamp |-> 0,
   expire |-> 0, revalidate |-> 0]
NoVal == [kind |-> "none", chars |-> << >>, data |-> NoData]
Absent == [type |-> "none", val |-> NoVal, members |-> {}, exp |-> NoExpiry]

\* What JSON.parse makes of the text JSON.stringify writes for a number that
\* is a non-negative integer (its decimal digits) and for a boolean.
JsonNumber(n) == ParseInt(ToDigits(n))
JsonBoolean(b) == (IF b THEN "true" ELSE "false") = "true"

\* JSON.stringify({value: data.toString("base64"), tags, stale, timestamp,
\* expire, revalidate}) of the drained entry; data is what JSON.parse makes of
\* the text.
Serialize(entry) ==
  [kind |-> "json", chars |-> << >>,
   data |-> [value |-> Base64Encode(Concat(entry.value)),
             tags |-> entry.tags, stale |-> JsonBoolean(entry.stale),
             timestamp |-> JsonNumber(entry.timestamp),
             expire |-> JsonNumber(entry.expire),
             revalidate |-> JsonNumber(entry.revalidate)]]

\* An object that is returned with its stale flag cleared.
ReconstructFresh(data) ==
  [value |-> Base64Decode(data.value), tags |-> data.tags,
   stale |-> FALSE, timestamp |-> data.timestamp,
   expire |-> data.expire, revalidate |-> data.revalidate]

\* The object get returns for a parsed record.
Reconstruct(data) ==
  [value |-> Base64Decode(data.value), tags |-> data.tags,
   stale |-> data.stale, timestamp |-> data.timestamp,
   expire |-> data.expire, revalidate |-> data.revalidate]

TimestampText(now) == [kind |-> "text", chars |-> ToDigits(now), data |-> NoData]
Malformed == [kind |-> "malformed", chars |-> << >>, data |-> NoData]

NoCmd == [cmd |-> "none", key |-> << >>, ttl |-> 0, val |-> NoVal, member |-> << >>]
CmdSetex(k, seconds, v) == [NoCmd EXCEPT !.cmd = "setex", !.key = k, !.ttl = seconds, !.val = v]
CmdSadd(k, m) == [NoCmd EXCEPT !.cmd = "sadd", !.key = k, !.member = m]
CmdExpire(k, seconds) == [NoCmd EXCEPT !.cmd = "expire", !.key = k, !.ttl = seconds]
CmdDel(k) == [NoCmd EXCEPT !.cmd = "del", !.key = k]
CmdSet(k, v) == [NoCmd EXCEPT !.cmd = "set", !.key = k, !.val = v]

\* One command of a batch applied by the store at time clk (seconds).  SADD on
\* a string record is refused by the store and changes nothing.
ApplyCmd(st, c, clk) ==
  IF c.key \notin DOMAIN st THEN st
  ELSE IF c.cmd = "setex" THEN
    [st EXCEPT ![c.key] = [type |-> "string", val |-> c.val, members |-> {},
                           exp |-> clk + c.ttl]]
  ELSE IF c.cmd = "set" THEN
    [st EXCEPT ![c.key] = [type |-> "string", val |-> c.val, members |-> {},
                           exp |-> NoExpiry]]
  ELSE IF c.cmd = "sadd" THEN
    IF st[c.key].type = "none" THEN
      [st EXCEPT ![c.key] = [type |-> "set", val |-> NoVal,
                             members |-> {c.member}, exp |-> NoExpiry]]
    ELSE IF st[c.key].type = "set" THEN
      [st EXCEPT ![c.key].members = @ \cup {c.member}]
    ELSE st
  ELSE IF c.cmd = "expire" THEN
    IF st[c.key].type = "none" THEN st
    ELSE [st EXCEPT ![c.key].exp = clk + c.ttl]
  ELSE IF c.cmd = "del" THEN [st EXCEPT ![c.key] = Absent]
  ELSE st

\* The store drops every record whose time to live has elapsed.
Expire(st, clk) ==
  [k \in DOMAIN st |->
     IF st[k].exp # NoExpiry /\ st[k].exp <= clk THEN Absent ELSE st[k]]

\* ------------------------------------------------------------------ state
VARIABLES
  clock,          \* seconds since the start; Date.now() is clock * 1000
  budget,         \* events from outside still to come
  store,          \* the shared store: store key -> record
  connected, connectCalls,
  tagTimestamps,  \* Map tag -> invalidation timestamp (ms)
  pendingSets,    \* Map cache key -> the set call whose promise is registered
  readQ, writeQ,  \* requests in flight on the read / write connection, in order
  pc, loc, result,
  obs,            \* per call: what an observer of the call has noted about it
  hist            \* what an observer has noted about the completed writes

vars ==
  <<clock, budget, store, connected, connectCalls, tagTimestamps,
    pendingSets, readQ, writeQ, pc, loc, result, obs, hist>>

Now == clock * MsPerSecond

EmptyMap == [x \in {} |-> 0]
MapPut(m, k, v) == [x \in DOMAIN m \cup {k} |-> IF x = k THEN v ELSE m[x]]
MapDelete(m, k) == [x \in DOMAIN m \ {k} |-> m[x]]

NoLoc ==
  [op |-> "none", key |-> "", tags |-> << >>, now |-> 0, idx |-> 0,
   cmds |-> << >>, applied |-> 0, waitOn |-> 0, err |-> FALSE, keys |-> << >>,
   data |-> << >>, sentAt |-> 0, chunks |-> << >>, entry |-> NoData]
NoResult == [kind |-> "none", entry |-> NoData]
\* Observer's notes on one call.  inflight: the set calls on the same key that
\* were in flight when a get was invoked and have not finished since.  expect:
\* the payload a get owes its caller (written by a set that resolved before
\* the get was invoked, with nothing since that ends the promise).  mustMiss:
\* the get was invoked for a key and tag invalidated before.  torn, staleHit:
\* noted when the store answers a get.  victims: the <<key, tag>> pairs an
\* invalidation was called for.
\* Of a get, noted when the store answers: present (the record exists and
\* decodes), pastRevalidate and pastExpire (its age, now - timestamp, is over
\* revalidate * 1000, over expire * 1000).
\* Of a refreshTags call: catchUp maps each tag that had no timestamp in the
\* process when the call was invoked, and a timestamp record in the store, to
\* the timestamp of that record (dropped when an updateTags is called since).
\* Of a set call: sole, no other set of the same key has been in flight
\* together with it.
\* Of an updateTags call: before is the process's timestamp map and the store
\* as they were when the call was invoked (noted, as is former, when no other
\* call was in flight).
\* Of a set call: invalidated, the tags whose invalidation had taken effect in
\* the process and in the store, with none in flight, when the set was called.
\* Of a get, noted when the store answers: handed, the entry that was handed
\* to the set whose record the store holds for the key.
\* Of a set call in flight: crossed, the tags whose invalidation was in flight
\* when it was called or has been called since.
\* Of a get: afterInval (the entry it owes its caller was written by a set
\* called after the invalidation of one of the get's tags), until (the end of
\* that entry's revalidate window, ms) and, noted when the store answers,
\* fresh (the answer came within the window).
\* Of an updateTags call: batches counts the batches it has sent for execution,
\* read lists, tag by tag, the member keys the store answered.
\* Of an updateTags call: startBudget is the budget when it was invoked with no
\* other call in flight (0 otherwise), former the keys whose records were
\* members of its tags then, prev what the call before it left when that was
\* an updateTags of the same tags that ran alone and without failure, with no
\* event between the two.
NoPrev == [valid |-> FALSE, former |-> {}, ts |-> 0]
NoObs ==
  [inflight |-> {}, expectValid |-> FALSE, expect |-> << >>, mustMiss |-> FALSE,
   torn |-> FALSE, staleHit |-> FALSE, victims |-> {}, startBudget |-> 0,
   former |-> {}, prev |-> NoPrev, catchUp |-> EmptyMap, present |-> FALSE,
   pastRevalidate |-> FALSE, pastExpire |-> FALSE,
   before |-> [ts |-> EmptyMap, store |-> EmptyMap], sole |-> FALSE,
   batches |-> 0, read |-> << >>, invalidated |-> {}, afterInval |-> FALSE,
   until |-> 0, fresh |-> FALSE, crossed |-> {}, handed |-> NoData]
NoWrite ==
  [valid |-> FALSE, tags |-> << >>, payload |-> << >>, deadline |-> 0,
   until |-> 0, after |-> {}]
Miss == [kind |-> "miss", entry |-> NoData]
Hit(e) == [kind |-> "hit", entry |-> e]
Resolved == [kind |-> "resolved", entry |-> NoData]
Raised == [kind |-> "raised", entry |-> NoData]

Init ==
  /\ clock = StartSeconds /\ budget = MaxEvents
  /\ store = [k \in AllKeys |-> Absent]
  /\ connected = FALSE /\ connectCalls = 0
  /\ tagTimestamps = EmptyMap
  /\ pendingSets = EmptyMap
  /\ readQ = << >> /\ writeQ = << >>
  /\ pc = [p \in Procs |-> "idle"]
  /\ loc = [p \in Procs |-> NoLoc]
  /\ result = [p \in Procs |-> NoResult]
  /\ obs = [p \in Procs |-> NoObs]
  /\ hist = [lastSet |-> [k \in CacheKeys |-> NoWrite],
             written |-> [k \in CacheKeys |-> NoWrite],
             mustMiss |-> {},
             stored |-> [k \in CacheKeys |-> NoData]]

\* ------------------------------------------------------- pure helpers
RECURSIVE SetToSeq(_)
SetToSeq(S) ==
  IF S = {} THEN << >>
  ELSE LET x == CHOOSE y \in S : TRUE IN <<x>> \o SetToSeq(S \ {x})

\* Every order in which the elements of S can be listed.
Orders(S) ==
  {q \in [1..Cardinality(S) -> S] : \A i, j \in 1..Cardinality(S) : i # j => q[i] # q[j]}

\* The entries a caller may hand to set at time now (ms): one fresh for its
\* whole life, one with a revalidate window shorter than its life, one with an
\* old timestamp, no tags and a life shorter than its revalidate window.
EntryInputs(now) ==
  {[value |-> PayloadA, tags |-> <<TagA, TagB>>, stale |-> FALSE, timestamp |-> now,
    expire |-> LongSeconds, revalidate |-> LongSeconds],
   [value |-> PayloadB, tags |-> <<TagB>>, stale |-> FALSE, timestamp |-> now,
    expire |-> LongSeconds, revalidate |-> ShortSeconds],
   [value |-> PayloadA, tags |-> << >>, stale |-> TRUE,
    timestamp |-> now - OldSeconds * MsPerSecond,
    expire |-> ShortSeconds, revalidate |-> LongSeconds]}

\* get, line 123: "Check if entry has expired".
IsExpired(data, now) == now > data.timestamp + data.revalidate * MsPerSecond

\* A get that rejects a record written before the invalidation of one of its
\* tags.
GetOutcomeChecksTags(rec, now) ==
  IF rec.type = "none" THEN Miss
  ELSE IF rec.type # "string" \/ rec.val.kind # "json" THEN Miss
  ELSE IF IsExpired(rec.val.data, now) THEN Miss
  ELSE IF \E t \in DOMAIN tagTimestamps :
            /\ \E i \in 1..Len(rec.val.data.tags) : rec.val.data.tags[i] = t
            /\ rec.val.data.timestamp < tagTimestamps[t]
  THEN Miss
  ELSE Hit(Reconstruct(rec.val.data))

\* get, lines 107-140: what get makes of the reply to readClient.get(key).
GetOutcome(rec, now) ==
  IF rec.type = "none" THEN Miss
  ELSE IF rec.type # "string" \/ rec.val.kind # "json" THEN Miss
  ELSE IF IsExpired(rec.val.data, now) THEN Miss
  ELSE Hit(Reconstruct(rec.val.data))

\* get fails inside its try block when the store refuses the command (the key
\* holds a set) or JSON.parse rejects the stored text.
GetThrows(rec) ==
  \/ rec.type = "set"
  \/ rec.type = "string" /\ rec.val.kind # "json"

\* A catch block that lets the error through to the caller.
GetCatchRethrows == Raised
\* The catch blocks of the four operations.
GetCatch == Miss
\* A catch block of set that lets the error out to the caller.
SetCatchRethrows == Raised
SetCatch == Resolved
UpdateTagsCatch == Resolved
RefreshTagsCatch == Resolved

\* set, lines 208-216: the batch for one entry.
RECURSIVE TagCmds(_, _, _)
TagCmds(tags, key, expire) ==
  IF tags = << >> THEN << >>
  ELSE <<CmdSadd(TagKey(Head(tags)), key),
         CmdExpire(TagKey(Head(tags)), expire + TagGraceSeconds)>>
         \o TagCmds(Tail(tags), key, expire)

\* A batch that, when the key holds a record, writes that record back.
SetPipelineKeepsRecord(cacheKey, entry) ==
  <<IF store[EntryKey(cacheKey)].type = "string"
    THEN CmdSetex(EntryKey(cacheKey), entry.expire, store[EntryKey(cacheKey)].val)
    ELSE CmdSetex(EntryKey(cacheKey), entry.expire, Serialize(entry))>>
    \o TagCmds(entry.tags, EntryKey(cacheKey), entry.expire)

SetPipeline(cacheKey, entry) ==
  <<CmdSetex(EntryKey(cacheKey), entry.expire, Serialize(entry))>>
    \o TagCmds(entry.tags, EntryKey(cacheKey), entry.expire)

\* updateTags, lines 302-314: the commands queued for one tag.
RECURSIVE DelCmds(_)
DelCmds(keys) ==
  IF keys = << >> THEN << >> ELSE <<CmdDel(Head(keys))>> \o DelCmds(Tail(keys))

\* The commands of one tag without the write of its timestamp record.
UpdateTagCmdsNoTimestamp(tag, cacheKeys, now) ==
  DelCmds(SetToSeq(cacheKeys)) \o <<CmdDel(TagKey(tag))>>

\* The commands of one tag without the deletion of its members' records.
UpdateTagCmdsKeepsEntries(tag, cacheKeys, now) ==
  <<CmdDel(TagKey(tag)), CmdSet(TagKey(tag) \o <<TIMESTAMP_SUFFIX>>, TimestampText(now))>>

UpdateTagCmds(tag, cacheKeys, now) ==
  DelCmds(SetToSeq(cacheKeys))
    \o <<CmdDel(TagKey(tag)), CmdSet(TagKey(tag) \o <<TIMESTAMP_SUFFIX>>, TimestampText(now))>>

\* A loop that keeps the timestamp of the first tag only.
MaxTimestampFirst(tags, m) ==
  IF tags = << >> THEN 0
  ELSE IF Head(tags) \in DOMAIN m THEN m[Head(tags)] ELSE 0

\* getExpiration, lines 258-277.
RECURSIVE MaxTimestamp(_, _)
MaxTimestamp(tags, m) ==
  IF tags = << >> THEN 0
  ELSE LET ts == IF Head(tags) \in DOMAIN m THEN m[Head(tags)] ELSE 0
           rest == MaxTimestamp(Tail(tags), m)
       IN IF ts > rest THEN ts ELSE rest

GetExpiration(tags) ==
  IF Len(tags) = 0 THEN 0 ELSE MaxTimestamp(tags, tagTimestamps)

\* ---------------------------------------------------------------- actions
Range(q) == {q[i] : i \in 1..Len(q)}

InFlight(q) == pc[q] \notin {"idle", "done"}
SetInFlight(q, k) == loc[q].op = "set" /\ loc[q].key = k /\ InFlight(q)
UpdInFlightOn(tagSet) ==
  \E q \in Procs :
    loc[q].op = "updateTags" /\ InFlight(q) /\ Range(loc[q].tags) \cap tagSet # {}

\* No call is in flight.
Quiet == \A q \in Procs : ~InFlight(q)
\* The cache keys whose entry record is a member of one of the tags' sets.
MembersOf(tags) ==
  {k \in CacheKeys :
     \E t \in Range(tags) : EntryKey(k) \in store[TagKey(t)].members}

\* ensureConnected, lines 75-84, up to its await: connect() is called on both
\* clients unless the flag is already set.
EnsureConnectedCalls == IF connected THEN connectCalls ELSE connectCalls + 1

\* The observer drops what it expected of key k (for the keys in K).
ForgetExpect(o, K) ==
  [q \in Procs |->
     IF loc[q].op = "get" /\ loc[q].key \in K
     THEN [o[q] EXCEPT !.expectValid = FALSE] ELSE o[q]]

\* The observer notes, of every set in flight, that tags are invalidated.
NoteCrossed(o, tags) ==
  [q \in Procs |->
     IF loc[q].op = "set" /\ pc[q] \notin {"idle", "done"}
     THEN [o[q] EXCEPT !.crossed = @ \cup {tags[i] : i \in 1..Len(tags)}]
     ELSE o[q]]

\* The observer drops what it expected of the refreshTags calls.
ForgetCatchUp(o) == [q \in Procs |-> [o[q] EXCEPT !.catchUp = EmptyMap]]

\* Time passes; the store expires records.
Tick(d) ==
  /\ budget > 0
  /\ budget' = budget - 1
  /\ clock' = clock + d
  /\ store' = Expire(store, clock')
  /\ LET over == {k \in CacheKeys :
                    hist.lastSet[k].valid /\ hist.lastSet[k].deadline <= clock'}
     IN /\ hist' = [hist EXCEPT !.lastSet =
                      [k \in CacheKeys |-> IF k \in over THEN NoWrite ELSE @[k]]]
        /\ obs' = ForgetExpect(obs, over)
  /\ UNCHANGED <<connected, connectCalls, tagTimestamps, pendingSets, readQ,
                 writeQ, pc, loc, result>>

\* A call takes the lowest free slot (the slots are interchangeable).
Free(p) == pc[p] \in {"idle", "done"}
CanInvoke(p) ==
  /\ Free(p) /\ budget > 0
  /\ \A q \in Procs : q < p => ~Free(q)

\* ----- get(cacheKey, softTags), lines 92-147
\* A get that waits for whatever write is registered, of any key.
GetBeginAnyKey(p, l) ==
  IF DOMAIN pendingSets # {}
  THEN /\ pc' = [pc EXCEPT ![p] = "g_wait"]
       /\ loc' = [loc EXCEPT ![p] =
            [l EXCEPT !.waitOn =
               pendingSets[CHOOSE k \in DOMAIN pendingSets : TRUE]]]
       /\ readQ' = readQ
  ELSE /\ pc' = [pc EXCEPT ![p] = "g_read"]
       /\ loc' = [loc EXCEPT ![p] = l]
       /\ readQ' = Append(readQ, p)
\* Lines 101-108: wait for the registered write if there is one, else send the
\* read.  l is the call's locals.
GetBegin(p, l) ==
  IF l.key \in DOMAIN pendingSets
  THEN /\ pc' = [pc EXCEPT ![p] = "g_wait"]
       /\ loc' = [loc EXCEPT ![p] = [l EXCEPT !.waitOn = pendingSets[l.key]]]
       /\ readQ' = readQ
  ELSE /\ pc' = [pc EXCEPT ![p] = "g_read"]
       /\ loc' = [loc EXCEPT ![p] = l]
       /\ readQ' = Append(readQ, p)

\* The call runs up to its first await that has to wait: with the flag set,
\* ensureConnected returns at once and the call goes on; otherwise connect()
\* is awaited.
GetInvoke(p, k, soft) ==
  /\ CanInvoke(p)
  /\ budget' = budget - 1
  /\ connectCalls' = EnsureConnectedCalls
  /\ LET l == [NoLoc EXCEPT !.op = "get", !.key = k, !.tags = soft]
     IN IF connected THEN GetBegin(p, l)
        ELSE /\ pc' = [pc EXCEPT ![p] = "conn"]
             /\ loc' = [loc EXCEPT ![p] = l]
             /\ readQ' = readQ
  /\ obs' = [obs EXCEPT ![p] =
       [NoObs EXCEPT
          !.inflight = {q \in Procs : SetInFlight(q, k)},
          !.expectValid = hist.lastSet[k].valid /\ soft = hist.lastSet[k].tags,
          !.expect = hist.lastSet[k].payload,
          !.afterInval = Range(soft) \cap hist.lastSet[k].after # {},
          !.until = hist.lastSet[k].until,
          !.mustMiss = \E t \in Tags : soft = <<t>> /\ <<k, t>> \in hist.mustMiss]]
  /\ result' = [result EXCEPT ![p] = NoResult]
  /\ UNCHANGED <<clock, store, connected, tagTimestamps, pendingSets, writeQ,
                 hist>>

\* Lines 79-83, 98: connect() settled (either way the flag is set).
GetAfterConnect(p) ==
  /\ pc[p] = "conn" /\ loc[p].op = "get"
  /\ connected' = TRUE
  /\ GetBegin(p, loc[p])
  /\ UNCHANGED <<clock, budget, store, connectCalls, tagTimestamps,
                 pendingSets, writeQ, result, obs, hist>>

\* A get that deletes the record it does not return.
GetReplyEvicts(p) ==
  /\ readQ # << >> /\ Head(readQ) = p /\ pc[p] = "g_read"
  /\ LET rec == store[EntryKey(loc[p].key)]
         out == IF GetThrows(rec) THEN GetCatch ELSE GetOutcome(rec, Now)
     IN /\ result' = [result EXCEPT ![p] = out]
        /\ loc' = [loc EXCEPT ![p].err = GetThrows(rec)]
        /\ store' = IF out.kind = "miss"
                    THEN [store EXCEPT ![EntryKey(loc[p].key)] = Absent]
                    ELSE store
  /\ readQ' = Tail(readQ)
  /\ pc' = [pc EXCEPT ![p] = "done"]
  /\ UNCHANGED <<clock, budget, connected, connectCalls, tagTimestamps,
                 pendingSets, writeQ, obs, hist>>

\* Lines 108-140: the store answers the read and get decides.
GetReply(p) ==
  /\ readQ # << >> /\ Head(readQ) = p /\ pc[p] = "g_read"
  /\ LET k == loc[p].key
         rec == store[EntryKey(k)]
         out == IF GetThrows(rec) THEN GetCatch ELSE GetOutcome(rec, Now)
     IN /\ result' = [result EXCEPT ![p] = out]
        /\ loc' = [loc EXCEPT ![p].err = GetThrows(rec)]
        /\ obs' = [obs EXCEPT
             ![p].torn =
                /\ out.kind = "hit"
                /\ \E q \in obs[p].inflight :
                     /\ loc[q].cmds # << >>
                     /\ loc[q].cmds[1].val = rec.val
                     /\ \E t \in Range(rec.val.data.tags) :
                          EntryKey(k) \notin store[TagKey(t)].members,
             ![p].staleHit =
                /\ out.kind = "hit"
                /\ \E t \in Range(loc[p].tags) :
                     /\ t \in DOMAIN tagTimestamps
                     /\ rec.val.data.timestamp < tagTimestamps[t],
             ![p].present = rec.type = "string" /\ rec.val.kind = "json",
             ![p].fresh = Now <= obs[p].until,
             ![p].handed = hist.stored[k],
             ![p].pastRevalidate =
                Now - rec.val.data.timestamp > rec.val.data.revalidate * MsPerSecond,
             ![p].pastExpire =
                Now - rec.val.data.timestamp > rec.val.data.expire * MsPerSecond]
  /\ readQ' = Tail(readQ)
  /\ pc' = [pc EXCEPT ![p] = "done"]
  /\ UNCHANGED <<clock, budget, store, connected, connectCalls,
                 tagTimestamps, pendingSets, writeQ, hist>>

\* ----- set(cacheKey, pendingEntry), lines 155-227
\* A set that has not registered its promise when it first suspends.
RegisterLate(m, k, p) == m
\* Line 161: pendingSets.set(cacheKey, pendingPromise).
Register(m, k, p) == MapPut(m, k, p)

\* Lines 157-168: register the promise, then ensureConnected.
SetInvoke(p, k) ==
  /\ CanInvoke(p)
  /\ budget' = budget - 1
  /\ pendingSets' = Register(pendingSets, k, p)
  /\ connectCalls' = EnsureConnectedCalls
  /\ pc' = [pc EXCEPT ![p] = IF connected THEN "s_entry" ELSE "conn"]
  /\ loc' = [loc EXCEPT ![p] = [NoLoc EXCEPT !.op = "set", !.key = k]]
  /\ hist' = [hist EXCEPT !.lastSet[k] = NoWrite, !.written[k] = NoWrite,
                          !.mustMiss = {m \in @ : m[1] # k}]
  /\ obs' = [q \in Procs |->
       IF q = p
         THEN [NoObs EXCEPT
                 !.sole = ~\E r \in Procs \ {p} : SetInFlight(r, k),
                 !.crossed =
                   UNION {Range(loc[r].tags) :
                            r \in {u \in Procs : loc[u].op = "updateTags"
                                                   /\ InFlight(u)}},
                 !.invalidated =
                   {t \in Tags : /\ t \in DOMAIN tagTimestamps
                                 /\ store[TimestampKey(t)].type = "string"
                                 /\ ~UpdInFlightOn({t})}]
       ELSE IF loc[q].op = "get" /\ loc[q].key = k
         THEN [obs[q] EXCEPT !.expectValid = FALSE, !.mustMiss = FALSE]
       ELSE [obs[q] EXCEPT !.victims = {m \in @ : m[1] # k},
                           !.sole = @ /\ ~SetInFlight(q, k)]]
  /\ UNCHANGED <<clock, store, connected, tagTimestamps, readQ, writeQ>>
  /\ result' = [result EXCEPT ![p] = NoResult]

SetAfterConnect(p) ==
  /\ pc[p] = "conn" /\ loc[p].op = "set"
  /\ connected' = TRUE
  /\ pc' = [pc EXCEPT ![p] = "s_entry"]
  /\ UNCHANGED <<clock, budget, store, connectCalls, tagTimestamps,
                 pendingSets, readQ, writeQ, loc, result, obs, hist>>

\* Lines 172-218: the producer delivers the entry, its stream is drained, the
\* batch is built and sent.
SetEntryReady(p, entry) ==
  /\ pc[p] = "s_entry"
  /\ loc' = [loc EXCEPT ![p].cmds = SetPipeline(loc[p].key, entry),
                        ![p].data = Concat(entry.value),
                        ![p].entry = entry]
  /\ writeQ' = Append(writeQ, p)
  /\ pc' = [pc EXCEPT ![p] = "s_exec"]
  /\ UNCHANGED <<clock, budget, store, connected, connectCalls,
                 tagTimestamps, pendingSets, readQ, result, obs, hist>>

\* Lines 172, 187: the producer rejects, or reading the stream fails.
SetProducerFail(p) ==
  /\ pc[p] = "s_entry" /\ budget > 0
  /\ budget' = budget - 1
  /\ loc' = [loc EXCEPT ![p].err = TRUE]
  /\ pc' = [pc EXCEPT ![p] = "s_fin"]
  /\ UNCHANGED <<clock, store, connected, connectCalls, tagTimestamps,
                 pendingSets, readQ, writeQ, result, obs, hist>>

\* Lines 223-226: the finally block.  Resolving the promise resumes the gets
\* awaiting it (line 104), which send their read (line 108) before any answer
\* of the store is handled.
\* A finally block that resolves the promise and leaves the registration.
SetFinallyKeeps(m, k) == m
SetFinally(m, k) == MapDelete(m, k)
\* A promise whose resolution resumes nobody.
WaitersNone(p) == {}
Waiters(p) == {q \in Procs : pc[q] = "g_wait" /\ loc[q].waitOn = p}

SetFinish(p) ==
  /\ pc[p] = "s_fin"
  /\ LET k == loc[p].key
         ok == ~loc[p].err
         alone == obs[p].sole /\ ~\E q \in Procs \ {p} : SetInFlight(q, k)
         data == loc[p].cmds[1].val.data
         wr == [valid |-> TRUE, tags |-> data.tags, payload |-> loc[p].data,
                deadline |-> loc[p].sentAt + data.expire,
                until |-> data.timestamp + data.revalidate * MsPerSecond,
                after |-> Range(data.tags) \cap obs[p].invalidated]
     IN /\ pendingSets' = SetFinally(pendingSets, k)
        /\ pc' = [q \in Procs |->
             IF q = p THEN "done"
             ELSE IF q \in Waiters(p) THEN "g_read"
             ELSE pc[q]]
        /\ readQ' = readQ \o SetToSeq(Waiters(p))
        /\ result' = [result EXCEPT ![p] = IF ok THEN Resolved ELSE SetCatch]
        /\ obs' = [q \in Procs |->
             [obs[q] EXCEPT !.inflight = @ \ {p},
                            !.crossed = IF q = p THEN {} ELSE @]]
        /\ hist' = [hist EXCEPT
             !.written[k] = IF ok /\ alone THEN wr ELSE NoWrite,
             !.lastSet[k] =
                IF ok /\ alone /\ ~UpdInFlightOn(Range(data.tags))
                   /\ Range(data.tags) \cap obs[p].crossed = {}
                   /\ wr.deadline > clock
                THEN wr ELSE NoWrite]
  /\ UNCHANGED <<clock, budget, store, connected, connectCalls,
                 tagTimestamps, writeQ, loc>>

\* ----- the write connection: batches are applied in the order sent, one
\* command at a time; the reply resolves exec().
PipelineStep(p) ==
  /\ writeQ # << >> /\ Head(writeQ) = p
  /\ LET c == loc[p].cmds[loc[p].applied + 1]
         last == loc[p].applied + 1 = Len(loc[p].cmds)
     IN /\ store' = ApplyCmd(store, c, clock)
        /\ loc' = [loc EXCEPT ![p].applied = @ + 1,
                              ![p].sentAt = IF c.cmd = "setex" THEN clock ELSE @]
        /\ writeQ' = IF last THEN Tail(writeQ) ELSE writeQ
        /\ pc' = [pc EXCEPT ![p] =
             IF ~last THEN @ ELSE IF loc[p].op = "set" THEN "s_fin" ELSE "done"]
        /\ result' = [result EXCEPT ![p] =
             IF last /\ loc[p].op = "updateTags" THEN Resolved ELSE @]
        /\ hist' = [hist EXCEPT
             !.mustMiss =
                IF last /\ loc[p].op = "updateTags" THEN @ \cup obs[p].victims ELSE @,
             !.stored =
                IF c.cmd = "setex"
                THEN [k \in CacheKeys |->
                        IF c.key = EntryKey(k) THEN loc[p].entry ELSE @[k]]
                ELSE @]
  /\ UNCHANGED <<clock, budget, connected, connectCalls, tagTimestamps,
                 pendingSets, readQ, obs>>

\* The write connection is lost while a batch is in flight: the commands not
\* yet applied are dropped and exec() rejects.
PipelineFail(p) ==
  /\ writeQ # << >> /\ Head(writeQ) = p /\ budget > 0
  /\ budget' = budget - 1
  /\ writeQ' = Tail(writeQ)
  /\ loc' = [loc EXCEPT ![p].err = TRUE]
  /\ pc' = [pc EXCEPT ![p] = IF loc[p].op = "set" THEN "s_fin" ELSE "done"]
  /\ result' = [result EXCEPT ![p] =
       IF loc[p].op = "updateTags" THEN UpdateTagsCatch ELSE @]
  /\ UNCHANGED <<clock, store, connected, connectCalls, tagTimestamps,
                 pendingSets, readQ, obs, hist>>

\* ----- updateTags(tags), lines 285-327
\* Lines 298-305: take now, open the batch, ask for the first tag's members.
UpdBegin(p, l) ==
  /\ loc' = [loc EXCEPT ![p] = [l EXCEPT !.now = Now, !.idx = 1]]
  /\ readQ' = Append(readQ, p)
  /\ pc' = [pc EXCEPT ![p] = "u_smembers"]

UpdInvoke(p, tags) ==
  /\ CanInvoke(p)
  /\ budget' = budget - 1
  /\ connectCalls' = EnsureConnectedCalls
  /\ LET l == [NoLoc EXCEPT !.op = "updateTags", !.tags = tags]
     IN IF connected THEN UpdBegin(p, l)
        ELSE /\ pc' = [pc EXCEPT ![p] = "conn"]
             /\ loc' = [loc EXCEPT ![p] = l]
             /\ readQ' = readQ
  /\ LET hit == {k \in CacheKeys :
                   Range(hist.lastSet[k].tags) \cap Range(tags) # {}}
     IN /\ hist' = [hist EXCEPT !.lastSet =
                      [k \in CacheKeys |-> IF k \in hit THEN NoWrite ELSE @[k]]]
        /\ obs' = [NoteCrossed(ForgetCatchUp(ForgetExpect(obs, hit)), tags)
                     EXCEPT ![p] =
             [NoObs EXCEPT
                !.victims =
                  {m \in CacheKeys \X Range(tags) :
                     /\ hist.written[m[1]].valid
                     /\ m[2] \in Range(hist.written[m[1]].tags)},
                !.startBudget = IF Quiet THEN budget ELSE 0,
                !.before = IF Quiet THEN [ts |-> tagTimestamps, store |-> store]
                           ELSE NoObs.before,
                !.former = IF Quiet THEN MembersOf(tags) ELSE {},
                !.prev =
                  IF /\ Quiet /\ loc[p].op = "updateTags" /\ pc[p] = "done"
                     /\ ~loc[p].err /\ loc[p].tags = tags
                     /\ obs[p].startBudget = budget + 1
                  THEN [valid |-> TRUE, former |-> obs[p].former,
                        ts |-> loc[p].now]
                  ELSE NoPrev]]
  /\ result' = [result EXCEPT ![p] = NoResult]
  /\ UNCHANGED <<clock, store, connected, tagTimestamps, pendingSets, writeQ>>

UpdAfterConnect(p) ==
  /\ pc[p] = "conn" /\ loc[p].op = "updateTags"
  /\ connected' = TRUE
  /\ UpdBegin(p, loc[p])
  /\ UNCHANGED <<clock, budget, store, connectCalls, tagTimestamps,
                 pendingSets, writeQ, result, obs, hist>>

\* updateTags, line 316.
RecordTimestamp(m, tag, now) == MapPut(m, tag, now)

\* Lines 305-319: the members of one tag arrive; queue its commands, record
\* its timestamp in the process, then ask for the next tag or send the batch.
\* SMEMBERS on a string record is refused by the store.
UpdSmembersReply(p) ==
  /\ readQ # << >> /\ Head(readQ) = p /\ pc[p] = "u_smembers"
  /\ LET tag == loc[p].tags[loc[p].idx]
         rec == store[TagKey(tag)]
         more == loc[p].idx < Len(loc[p].tags)
     IN IF rec.type = "string"
        THEN /\ loc' = [loc EXCEPT ![p].err = TRUE]
             /\ pc' = [pc EXCEPT ![p] = "done"]
             /\ result' = [result EXCEPT ![p] = UpdateTagsCatch]
             /\ readQ' = Tail(readQ)
             /\ UNCHANGED <<tagTimestamps, writeQ, obs>>
        ELSE /\ loc' = [loc EXCEPT
                  ![p].cmds = @ \o UpdateTagCmds(tag, rec.members, loc[p].now),
                  ![p].idx = @ + 1]
             /\ obs' = [obs EXCEPT
                  ![p].read = Append(@, rec.members),
                  ![p].batches = IF more THEN @ ELSE @ + 1]
             /\ tagTimestamps' = RecordTimestamp(tagTimestamps, tag, loc[p].now)
             /\ readQ' = IF more THEN Append(Tail(readQ), p) ELSE Tail(readQ)
             /\ writeQ' = IF more THEN writeQ ELSE Append(writeQ, p)
             /\ pc' = [pc EXCEPT ![p] = IF more THEN "u_smembers" ELSE "u_exec"]
             /\ result' = result
  /\ UNCHANGED <<clock, budget, store, connected, connectCalls,
                 pendingSets, hist>>

\* ----- refreshTags(), lines 233-251
RefreshBegin(p, l) ==
  /\ loc' = [loc EXCEPT ![p] = l]
  /\ readQ' = Append(readQ, p)
  /\ pc' = [pc EXCEPT ![p] = "r_keys"]

RefreshInvoke(p) ==
  /\ CanInvoke(p)
  /\ budget' = budget - 1
  /\ connectCalls' = EnsureConnectedCalls
  /\ LET l == [NoLoc EXCEPT !.op = "refreshTags"]
     IN IF connected THEN RefreshBegin(p, l)
        ELSE /\ pc' = [pc EXCEPT ![p] = "conn"]
             /\ loc' = [loc EXCEPT ![p] = l]
             /\ readQ' = readQ
  /\ obs' = [obs EXCEPT ![p] =
       [NoObs EXCEPT !.catchUp =
          [t \in {u \in Tags :
                    /\ u \notin DOMAIN tagTimestamps
                    /\ ~UpdInFlightOn({u})
                    /\ store[TimestampKey(u)].type = "string"
                    /\ store[TimestampKey(u)].val.kind = "text"}
             |-> ParseInt(store[TimestampKey(t)].val.chars)]]]
  /\ result' = [result EXCEPT ![p] = NoResult]
  /\ UNCHANGED <<clock, store, connected, tagTimestamps, pendingSets, writeQ,
                 hist>>

RefreshAfterConnect(p) ==
  /\ pc[p] = "conn" /\ loc[p].op = "refreshTags"
  /\ connected' = TRUE
  /\ RefreshBegin(p, loc[p])
  /\ UNCHANGED <<clock, budget, store, connectCalls, tagTimestamps,
                 pendingSets, writeQ, result, obs, hist>>

\* Line 238: KEYS answers with the timestamp keys present, in any order.
RefreshKeysReply(p) ==
  /\ readQ # << >> /\ Head(readQ) = p /\ pc[p] = "r_keys"
  /\ LET found == {k \in DOMAIN store :
                     store[k].type # "none" /\ MatchesTimestampPattern(k)}
     IN IF found = {}
        THEN /\ pc' = [pc EXCEPT ![p] = "done"]
             /\ result' = [result EXCEPT ![p] = Resolved]
             /\ readQ' = Tail(readQ)
             /\ loc' = loc
        ELSE /\ \E order \in Orders(found) :
                  loc' = [loc EXCEPT ![p].keys = order, ![p].idx = 1]
             /\ pc' = [pc EXCEPT ![p] = "r_get"]
             /\ result' = result
             /\ readQ' = Append(Tail(readQ), p)
  /\ UNCHANGED <<clock, budget, store, connected, connectCalls,
                 tagTimestamps, pendingSets, writeQ, obs, hist>>

\* A refresh that leaves the map as it is.
RefreshTimestampSkips(m, tag, rec) == m
\* refreshTags, lines 243-245.
RefreshTimestamp(m, tag, rec) ==
  IF rec.type = "string" /\ rec.val.kind = "text"
  THEN MapPut(m, tag, ParseInt(rec.val.chars)) ELSE m

\* Lines 241-245: one timestamp record arrives.  GET on a set record is
\* refused by the store.
RefreshGetReply(p) ==
  /\ readQ # << >> /\ Head(readQ) = p /\ pc[p] = "r_get"
  /\ LET tagKey == loc[p].keys[loc[p].idx]
         rec == store[tagKey]
         more == loc[p].idx < Len(loc[p].keys)
     IN IF rec.type = "set"
        THEN /\ loc' = [loc EXCEPT ![p].err = TRUE]
             /\ pc' = [pc EXCEPT ![p] = "done"]
             /\ result' = [result EXCEPT ![p] = RefreshTagsCatch]
             /\ readQ' = Tail(readQ)
             /\ tagTimestamps' = tagTimestamps
        ELSE /\ tagTimestamps' =
                  RefreshTimestamp(tagTimestamps, TagOfTimestampKey(tagKey), rec)
             /\ loc' = [loc EXCEPT ![p].idx = @ + 1]
             /\ readQ' = IF more THEN Append(Tail(readQ), p) ELSE Tail(readQ)
             /\ pc' = [pc EXCEPT ![p] = IF more THEN "r_get" ELSE "done"]
             /\ result' = [result EXCEPT ![p] = IF more THEN @ ELSE Resolved]
  /\ UNCHANGED <<clock, budget, store, connected, connectCalls,
                 pendingSets, writeQ, obs, hist>>

\* ----- failures and the environment
\* The read connection is lost while a request is in flight: the request
\* rejects and the operation's catch block runs.
ReadFail(p) ==
  /\ readQ # << >> /\ Head(readQ) = p /\ budget > 0
  /\ budget' = budget - 1
  /\ readQ' = Tail(readQ)
  /\ loc' = [loc EXCEPT ![p].err = TRUE]
  /\ pc' = [pc EXCEPT ![p] = "done"]
  /\ result' = [result EXCEPT ![p] =
       IF loc[p].op = "get" THEN GetCatch
       ELSE IF loc[p].op = "updateTags" THEN UpdateTagsCatch
       ELSE RefreshTagsCatch]
  /\ UNCHANGED <<clock, store, connected, connectCalls, tagTimestamps,
                 pendingSets, writeQ, obs, hist>>

\* Another client of the store overwrites an entry record with text that is
\* not JSON.
StoreCorrupt(k) ==
  /\ budget > 0
  /\ store[EntryKey(k)].type = "string"
  /\ budget' = budget - 1
  /\ store' = [store EXCEPT ![EntryKey(k)].val = Malformed]
  /\ hist' = [hist EXCEPT !.lastSet[k] = NoWrite]
  /\ obs' = ForgetExpect(obs, {k})
  /\ UNCHANGED <<clock, connected, connectCalls, tagTimestamps, pendingSets,
                 readQ, writeQ, pc, loc, result>>

Next ==
  \/ \E d \in TickSteps : Tick(d)
  \/ \E p \in Procs, k \in CallKeys, soft \in SoftTagLists : GetInvoke(p, k, soft)
  \/ \E p \in Procs : GetAfterConnect(p)
  \/ \E p \in Procs : GetReply(p)
  \/ \E p \in Procs, k \in CallKeys : SetInvoke(p, k)
  \/ \E p \in Procs : SetAfterConnect(p)
  \/ \E p \in Procs : \E entry \in EntryInputs(Now) : SetEntryReady(p, entry)
  \/ \E p \in Procs : SetProducerFail(p)
  \/ \E p \in Procs : SetFinish(p)
  \/ \E p \in Procs : PipelineStep(p)
  \/ \E p \in Procs : PipelineFail(p)
  \/ \E p \in Procs, tags \in UpdTagLists : UpdInvoke(p, tags)
  \/ \E p \in Procs : UpdAfterConnect(p)
  \/ \E p \in Procs : UpdSmembersReply(p)
  \/ \E p \in Procs : RefreshInvoke(p)
  \/ \E p \in Procs : RefreshAfterConnect(p)
  \/ \E p \in Procs : RefreshKeysReply(p)
  \/ \E p \in Procs : RefreshGetReply(p)
  \/ \E p \in Procs : ReadFail(p)
  \/ \E k \in CallKeys : StoreCorrupt(k)

Spec == Init /\ [][Next]_vars

\* The same program with one more event from outside.
WideInit ==
  /\ clock = StartSeconds /\ budget = WideEvents
  /\ store = [k \in AllKeys |-> Absent]
  /\ connected = FALSE /\ connectCalls = 0
  /\ tagTimestamps = EmptyMap
  /\ pendingSets = EmptyMap
  /\ readQ = << >> /\ writeQ = << >>
  /\ pc = [p \in Procs |-> "idle"]
  /\ loc = [p \in Procs |-> NoLoc]
  /\ result = [p \in Procs |-> NoResult]
  /\ obs = [p \in Procs |-> NoObs]
  /\ hist = [lastSet |-> [k \in CacheKeys |-> NoWrite],
             written |-> [k \in CacheKeys |-> NoWrite],
             mustMiss |-> {},
             stored |-> [k \in CacheKeys |-> NoData]]

WideSpec == WideInit /\ [][Next]_vars

\* ----- a second instance of the handler on the same store
\* The commands of updateTags(tags) run by the other instance, built from the
\* member sets as they are in st.
RECURSIVE PeerCmds(_, _, _)
PeerCmds(tags, st, now) ==
  IF tags = << >> THEN << >>
  ELSE UpdateTagCmds(Head(tags), st[TagKey(Head(tags))].members, now)
         \o PeerCmds(Tail(tags), st, now)

RECURSIVE ApplyAll(_, _, _)
ApplyAll(st, cmds, clk) ==
  IF cmds = << >> THEN st
  ELSE ApplyAll(ApplyCmd(st, Head(cmds), clk), Tail(cmds), clk)

\* The other instance calls updateTags(tags) and the call completes: the
\* store changes, this instance's map does not.
PeerUpdateTags(tags) ==
  /\ budget > 0
  /\ budget' = budget - 1
  /\ store' = ApplyAll(store, PeerCmds(tags, store, Now), clock)
  /\ LET hit == {k \in CacheKeys :
                   Range(hist.lastSet[k].tags) \cap Range(tags) # {}}
     IN /\ hist' = [hist EXCEPT !.lastSet =
                      [k \in CacheKeys |-> IF k \in hit THEN NoWrite ELSE @[k]]]
        /\ obs' = NoteCrossed(ForgetCatchUp(ForgetExpect(obs, hit)), tags)
  /\ UNCHANGED <<clock, connected, connectCalls, tagTimestamps, pendingSets,
                 readQ, writeQ, pc, loc, result>>

PeerNext ==
  \/ Next
  \/ \E tags \in UpdTagLists : PeerUpdateTags(tags)

PeerSpec == Init /\ [][PeerNext]_vars

\* ----- writes of two keys that share a tag
\* The entries handed to set: both carry the tag, one lives long, one short.
TagEntryInputs(now) ==
  {[value |-> PayloadA, tags |-> <<TagB>>, stale |-> FALSE, timestamp |-> now,
    expire |-> LongSeconds, revalidate |-> LongSeconds],
   [value |-> PayloadB, tags |-> <<TagB>>, stale |-> FALSE, timestamp |-> now,
    expire |-> ShortSeconds, revalidate |-> ShortSeconds]}

TagNext ==
  \/ \E d \in TickSteps : Tick(d)
  \/ \E p \in Procs, k \in CacheKeys : SetInvoke(p, k)
  \/ \E p \in Procs : SetAfterConnect(p)
  \/ \E p \in Procs : \E entry \in TagEntryInputs(Now) : SetEntryReady(p, entry)
  \/ \E p \in Procs : PipelineStep(p)
  \/ \E p \in Procs : SetFinish(p)

TagSpec == Init /\ [][TagNext]_vars

\* ----- one set and one get of an arbitrary payload
Bytes == {0, 1, 97, 128, 255}
Flats == UNION {[1..n -> Bytes] : n \in 0..MaxBytes}
\* A payload as the stream delivers it: no chunk, one chunk, or two.
ChunkLists ==
  {<< >>} \cup {<<b>> : b \in Flats}
    \cup UNION {{<<SubSeq(b, 1, i), SubSeq(b, i + 1, Len(b))>> : i \in 0..Len(b)}
                 : b \in Flats}

CodecEntry(chunks, now) ==
  [value |-> chunks, tags |-> << >>, stale |-> FALSE, timestamp |-> now,
   expire |-> LongSeconds, revalidate |-> LongSeconds]

\* set("w1", pendingEntry) has been called on a connected handler and awaits
\* its entry, whose stream will deliver the chunks.
CodecInit ==
  /\ clock = StartSeconds /\ budget = 1
  /\ store = [k \in AllKeys |-> Absent]
  /\ connected = TRUE /\ connectCalls = 1
  /\ tagTimestamps = EmptyMap
  /\ pendingSets = MapPut(EmptyMap, "w1", 2)
  /\ readQ = << >> /\ writeQ = << >>
  /\ pc = [p \in Procs |-> IF p = 2 THEN "s_entry" ELSE "idle"]
  /\ \E chunks \in ChunkLists :
       loc = [p \in Procs |->
                IF p = 2
                THEN [NoLoc EXCEPT !.op = "set", !.key = "w1", !.chunks = chunks]
                ELSE NoLoc]
  /\ result = [p \in Procs |-> NoResult]
  /\ obs = [p \in Procs |-> NoObs]
  /\ hist = [lastSet |-> [k \in CacheKeys |-> NoWrite],
             written |-> [k \in CacheKeys |-> NoWrite],
             mustMiss |-> {},
             stored |-> [k \in CacheKeys |-> NoData]]

CodecNext ==
  \/ \E p \in Procs : SetEntryReady(p, CodecEntry(loc[p].chunks, Now))
  \/ \E p \in Procs : PipelineStep(p)
  \/ \E p \in Procs : SetFinish(p)
  \/ \E p \in Procs : GetInvoke(p, "w1", << >>)
  \/ \E p \in Procs : GetReply(p)

CodecSpec == CodecInit /\ [][CodecNext]_vars

\* The steps the handler and the store take by themselves: every step but a
\* call, a tick or a failure.  Node.js runs every resumed continuation, the
\* store answers every request it is sent while the connection holds, and
\* the producer of an entry settles.
Progress ==
  \/ \E p \in Procs : GetAfterConnect(p) \/ SetAfterConnect(p)
                        \/ UpdAfterConnect(p) \/ RefreshAfterConnect(p)
  \/ \E p \in Procs : GetReply(p) \/ UpdSmembersReply(p)
                        \/ RefreshKeysReply(p) \/ RefreshGetReply(p)
  \/ \E p \in Procs : \E entry \in EntryInputs(Now) : SetEntryReady(p, entry)
  \/ \E p \in Procs : PipelineStep(p) \/ SetFinish(p)

FairSpec == Init /\ [][Next]_vars /\ WF_vars(Progress)

\* ------------------------------------------------------------------ claims
GetDone(p) == loc[p].op = "get" /\ pc[p] = "done"
SetDone(p) == loc[p].op = "set" /\ pc[p] = "done"

\* C1.  Write-then-read coherence: a get(k, e.tags) invoked after set(k, e)
\* resolved without a failure, answered by the store, returns a hit with e's
\* payload for as long as e's time to live has not elapsed, updateTags was not
\* called on one of e's tags, no other set(k) was invoked and no other client
\* overwrote the record.
C1_WriteThenRead ==
  \A p \in Procs :
    GetDone(p) /\ ~loc[p].err /\ obs[p].expectValid =>
      result[p].kind = "hit" /\ result[p].entry.value = obs[p].expect


\* C2.  Tag invalidation completeness: once updateTags(tags) with t in tags
\* has resolved without a failure, a get(k, [t]) invoked afterwards returns a
\* miss for every key k whose entry was written with tag t by a set that had
\* resolved without a failure before updateTags was called, until set(k) is
\* called again.
C2_InvalidationCompleteness ==
  \A p \in Procs : GetDone(p) /\ obs[p].mustMiss => result[p].kind = "miss"

\* C3.  Read waits for in-flight writes: a get(k) invoked while set(k) calls
\* are in flight sends its read to the store only after every one of them has
\* finished.
C3_ReadWaitsForWrites ==
  \A p \in Procs :
    loc[p].op = "get" /\ pc[p] \in {"g_read", "done"} => obs[p].inflight = {}

\* C4.  All-or-nothing visibility: a get(k) invoked while set(k, e) is in
\* flight never returns e read at a moment when the store holds e's record but
\* k is missing from the member set of one of e's tags.
C4_AllOrNothing ==
  \A p \in Procs : GetDone(p) => ~obs[p].torn

\* C5.  Writers never race: two set calls for the same key never have their
\* store batches in flight at the same time.
C5_WritersNeverRace ==
  \A p, q \in Procs :
    p # q /\ loc[p].op = "set" /\ loc[q].op = "set" /\ loc[p].key = loc[q].key
      => ~(pc[p] = "s_exec" /\ pc[q] = "s_exec")

\* C6.  get uses the tags it is given: it never returns as a hit an entry whose
\* timestamp is earlier than the invalidation timestamp the process holds for
\* one of the tags passed to it.
C6_TagsDecideFreshness ==
  \A p \in Procs : GetDone(p) => ~obs[p].staleHit

\* C7.  Fail-soft boundary: whatever fails inside a call (a read or a batch
\* on a lost connection, a command the store refuses, a record that is not
\* JSON, a rejecting producer), the call does not raise: get returns a miss,
\* set, updateTags and refreshTags resolve.
C7_FailSoft ==
  \A p \in Procs :
    pc[p] = "done" =>
      /\ result[p].kind # "raised"
      /\ loc[p].op = "get" /\ loc[p].err => result[p].kind = "miss"
      /\ loc[p].op \in {"set", "updateTags", "refreshTags"} =>
           result[p].kind = "resolved"

\* A get has failed inside, after its read was sent, and has finished with a
\* miss.
C7_Witness ==
  \E p \in Procs : GetDone(p) /\ loc[p].err /\ result[p].kind = "miss"

\* C8.  Write atomicity: when set resolves, its batch has been applied either
\* whole or not at all.
C8_WriteAtomicity ==
  \A p \in Procs :
    SetDone(p) => loc[p].applied = 0 \/ loc[p].applied = Len(loc[p].cmds)

\* C9.  Slot release: a set(k) whose producer has settled finishes, whether its
\* batch was applied or failed, and when it has finished k is not registered
\* and no get is still waiting on its promise.
C9_SlotRelease ==
  \A p \in Procs :
    (loc[p].op = "set" /\ pc[p] \in {"s_exec", "s_fin"})
      ~> (SetDone(p) /\ loc[p].key \notin DOMAIN pendingSets /\ Waiters(p) = {})

\* A set whose write failed has finished, its key is not registered, and the
\* get that waited on it has gone on.
C9_Witness ==
  \E p, q \in Procs :
    /\ SetDone(p) /\ loc[p].err /\ loc[p].key \notin DOMAIN pendingSets
    /\ loc[q].op = "get" /\ loc[q].waitOn = p /\ pc[q] \in {"g_read", "done"}

\* C10.  Timestamp monotonicity: for every tag t the value of
\* getExpiration([t]) never decreases from one state to the next.
C10_TimestampMonotone ==
  [][\A t \in Tags : GetExpiration(<<t>>)' >= GetExpiration(<<t>>)]_vars

\* C11.  Idempotence of invalidation: when updateTags(tags) has run twice in
\* succession (each alone, the first without failure, no event between or
\* during them), the second call has resolved, and if it did not fail the
\* member set of every tag is absent, the entry record of every former member
\* is absent, and the tag's timestamp, in the process and in the store, is not
\* below the one the first call recorded.
SecondUpdateDone(p) ==
  /\ loc[p].op = "updateTags" /\ pc[p] = "done"
  /\ obs[p].prev.valid /\ budget = obs[p].startBudget - 1

C11_IdempotentInvalidation ==
  \A p \in Procs :
    SecondUpdateDone(p) =>
      /\ result[p].kind = "resolved"
      /\ ~loc[p].err =>
           /\ \A k \in obs[p].prev.former : store[EntryKey(k)].type = "none"
           /\ \A t \in Range(loc[p].tags) :
                /\ store[TagKey(t)].type = "none"
                /\ t \in DOMAIN tagTimestamps
                /\ tagTimestamps[t] >= obs[p].prev.ts
                /\ store[TimestampKey(t)].type = "string"
                /\ ParseInt(store[TimestampKey(t)].val.chars) >= obs[p].prev.ts

\* The second of two updateTags calls in succession has finished without
\* failure, and the first had a member to delete.
C11_Witness ==
  \E p \in Procs :
    SecondUpdateDone(p) /\ ~loc[p].err /\ obs[p].prev.former # {}

\* C12.  getExpiration(tags) is the greatest in-process invalidation timestamp
\* of the given tags, and 0 when the list is empty or none of its tags has a
\* timestamp in this process.
TagUnknown == <<"unknown-tag">>
QueryTags == Tags \cup {TagUnknown}
QueryTagLists ==
  {<< >>} \cup {<<t>> : t \in QueryTags} \cup {<<t, u>> : t, u \in QueryTags}

C12_GetExpirationIsMax ==
  \A tags \in QueryTagLists :
    LET known == {tagTimestamps[t] : t \in Range(tags) \cap DOMAIN tagTimestamps}
        r == GetExpiration(tags)
    IN /\ known = {} => r = 0
       /\ known # {} => r \in known /\ \A v \in known : v <= r

\* Two tags have different timestamps in the process, the later one second in
\* the list, and a third tag has none.
C12_Witness ==
  /\ TagA \in DOMAIN tagTimestamps /\ TagB \in DOMAIN tagTimestamps
  /\ tagTimestamps[TagA] < tagTimestamps[TagB]
  /\ GetExpiration(<<TagA, TagB>>) = tagTimestamps[TagB]
  /\ GetExpiration(<<TagUnknown>>) = 0

\* C13.  Refresh catch-up: when the other instance's updateTags recorded
\* timestamp T for tag t in the store and completed, and this instance, with
\* no timestamp for t, has completed refreshTags() without failure (and no
\* updateTags was called on either instance in the meantime),
\* getExpiration([t]) on this instance is T.
RefreshDone(p) == loc[p].op = "refreshTags" /\ pc[p] = "done"

C13_RefreshCatchUp ==
  \A p \in Procs :
    RefreshDone(p) /\ ~loc[p].err =>
      \A t \in DOMAIN obs[p].catchUp : GetExpiration(<<t>>) = obs[p].catchUp[t]

\* A refreshTags call has completed on this instance after the other instance
\* invalidated both tags.
C13_Witness ==
  \E p \in Procs :
    /\ RefreshDone(p) /\ ~loc[p].err
    /\ DOMAIN obs[p].catchUp = Tags
    /\ GetExpiration(<<TagA>>) = obs[p].catchUp[TagA]
    /\ obs[p].catchUp[TagA] > 0

\* C14.  Advisory staleness: a get that read a record that exists and decodes,
\* whose age is over revalidate * 1000 and not over expire * 1000, returns the
\* entry (a hit), not a miss.
C14_AdvisoryStaleness ==
  \A p \in Procs :
    GetDone(p) /\ obs[p].present /\ obs[p].pastRevalidate /\ ~obs[p].pastExpire
      => result[p].kind = "hit"

\* C15.  Defensive check of the time to live: a get that read a record that
\* exists and decodes, whose age is over expire * 1000, returns a miss,
\* whatever expire, revalidate and timestamp the caller supplied.
C15_DefensiveTtlCheck ==
  \A p \in Procs :
    GetDone(p) /\ obs[p].present /\ obs[p].pastExpire => result[p].kind = "miss"

\* C16.  Codec round trip: the payload get returns from the record that set
\* encoded equals the bytes the entry's stream delivered, whatever the bytes
\* and however they were split into chunks.
C16_CodecRoundTrip ==
  \A p, q \in Procs :
    GetDone(p) /\ loc[q].op = "set" =>
      /\ result[p].kind = "hit"
      /\ result[p].entry.value = Concat(loc[q].chunks)

\* A get has returned a payload of the greatest length, delivered in two
\* chunks, that holds the bytes 0 and 255.
C16_Witness ==
  \E p, q \in Procs :
    /\ GetDone(p) /\ result[p].kind = "hit"
    /\ loc[q].op = "set" /\ Len(loc[q].chunks) = 2
    /\ Len(result[p].entry.value) = MaxBytes
    /\ {0, 255} \subseteq Range(result[p].entry.value)

\* C17.  The tag index outlives its entries: with no call in flight, the
\* member set of tag t is present and does not expire before any entry record
\* present in the store that was written with tag t.
C17_TagIndexOutlivesEntries ==
  Quiet =>
    \A k \in CacheKeys, t \in Tags :
      LET e == store[EntryKey(k)]
          m == store[TagKey(t)]
      IN e.type = "string" /\ e.val.kind = "json" /\ t \in Range(e.val.data.tags)
           => m.type = "set" /\ (m.exp = NoExpiry \/ m.exp >= e.exp)

\* C18.  A failed invalidation is a no-op: when updateTags, called with no
\* other call in flight, has failed on a store operation (nothing else having
\* happened since it was called), the process's timestamp map and the store
\* are as they were when it was called.
C18_FailedInvalidationNoOp ==
  \A p \in Procs :
    /\ loc[p].op = "updateTags" /\ pc[p] = "done" /\ loc[p].err
    /\ obs[p].startBudget > 0 /\ budget = obs[p].startBudget - 2
    => /\ tagTimestamps = obs[p].before.ts
       /\ store = obs[p].before.store

\* C19.  Registry lifetime: in every state and for every key k, the registry
\* of pending writes holds k exactly when some set(k) is in flight.
C19_RegistryLifetime ==
  \A k \in CacheKeys :
    k \in DOMAIN pendingSets <=> \E q \in Procs : SetInFlight(q, k)

\* C20.  Registration precedes I/O: from the state set(k) is invoked in, before
\* it connects, awaits its producer or sends a command, and for as long as it
\* is in flight with no other set(k) overlapping it, k is registered with its
\* promise, and no get(k) invoked while it is in flight reads the store before
\* it has finished.
C20_RegistrationPrecedesIO ==
  /\ \A q \in Procs :
       loc[q].op = "set" /\ InFlight(q) /\ obs[q].sole =>
         /\ loc[q].key \in DOMAIN pendingSets
         /\ pendingSets[loc[q].key] = q
  /\ \A p \in Procs :
       loc[p].op = "get" /\ pc[p] \in {"g_read", "done"} =>
         \A q \in obs[p].inflight : ~obs[q].sole

\* A get invoked after a set, the only writer of the key, waits on the
\* promise of that set, which has not yet connected.
C20_Witness ==
  \E p, q \in Procs :
    /\ pc[p] = "g_wait" /\ loc[p].waitOn = q /\ q \in obs[p].inflight
    /\ loc[q].op = "set" /\ obs[q].sole /\ pc[q] = "conn"

\* C21.  Invalidation records the timestamp in both places: in the state in
\* which updateTags(tags) resolves without a store failure, every tag of the
\* call has, in the process's map and in its timestamp record in the store,
\* the one now taken by the call.
C21_TimestampInBothPlaces ==
  [][\A p \in Procs :
       /\ pc[p] # "done" /\ pc'[p] = "done"
       /\ loc'[p].op = "updateTags" /\ ~loc'[p].err
       => \A t \in Range(loc'[p].tags) :
            /\ t \in DOMAIN tagTimestamps'
            /\ tagTimestamps'[t] = loc'[p].now
            /\ store'[TimestampKey(t)].type = "string"
            /\ ParseInt(store'[TimestampKey(t)].val.chars) = loc'[p].now]_vars

\* ----- writes and invalidations only: no failure, no time passing
IndexNext ==
  \/ \E p \in Procs, k \in CallKeys : SetInvoke(p, k)
  \/ \E p \in Procs : SetAfterConnect(p)
  \/ \E p \in Procs : \E entry \in EntryInputs(Now) : SetEntryReady(p, entry)
  \/ \E p \in Procs : SetFinish(p)
  \/ \E p \in Procs : PipelineStep(p)
  \/ \E p \in Procs, tags \in UpdTagLists : UpdInvoke(p, tags)
  \/ \E p \in Procs : UpdAfterConnect(p)
  \/ \E p \in Procs : UpdSmembersReply(p)

IndexSpec == Init /\ [][IndexNext]_vars

\* The store holds an entry record for cache key k whose tags include t.
TaggedRecord(k, t) ==
  /\ store[EntryKey(k)].type = "string"
  /\ store[EntryKey(k)].val.kind = "json"
  /\ t \in Range(store[EntryKey(k)].val.data.tags)

\* C22.  Member sets hold only currently tagged keys: whenever no call is in
\* flight, a key that is in the store's member set of tag t has an entry
\* record in the store whose tags include t.
C22_MemberSetsCurrent ==
  Quiet =>
    \A k \in CacheKeys, t \in Tags :
      EntryKey(k) \in store[TagKey(t)].members => TaggedRecord(k, t)

\* C23.  Index completeness under interleaving: whenever no call is in flight,
\* after any interleaving of set and updateTags calls, every entry record
\* whose tags include t has its key in t's member set.
C23_IndexComplete ==
  Quiet =>
    \A k \in CacheKeys, t \in Tags :
      TaggedRecord(k, t) => EntryKey(k) \in store[TagKey(t)].members

\* ----- a tag named like another tag's timestamp record
\* The entry handed to set: short lived, tagged with TagC.
SuffixEntryInputs(now) ==
  {[value |-> PayloadA, tags |-> <<TagC>>, stale |-> FALSE, timestamp |-> now,
    expire |-> ShortSeconds, revalidate |-> ShortSeconds]}

SuffixNext ==
  \/ \E d \in TickSteps : Tick(d)
  \/ \E p \in Procs, k \in CallKeys : SetInvoke(p, k)
  \/ \E p \in Procs : SetAfterConnect(p)
  \/ \E p \in Procs : \E entry \in SuffixEntryInputs(Now) : SetEntryReady(p, entry)
  \/ \E p \in Procs : SetFinish(p)
  \/ \E p \in Procs : PipelineStep(p)
  \/ \E p \in Procs, tags \in {<<TagA>>, <<TagC>>} : UpdInvoke(p, tags)
  \/ \E p \in Procs : UpdAfterConnect(p)
  \/ \E p \in Procs : UpdSmembersReply(p)
  \/ \E p \in Procs : RefreshInvoke(p)
  \/ \E p \in Procs : RefreshAfterConnect(p)
  \/ \E p \in Procs : RefreshKeysReply(p)
  \/ \E p \in Procs : RefreshGetReply(p)

SuffixSpec == Init /\ [][SuffixNext]_vars

\* C24.  Tag timestamps are never deleted: a tag that has a timestamp in the
\* process's map has one after every step, and a tag that has a timestamp
\* record in the store has one after every step.
C24_TimestampsKept ==
  [][\A t \in Tags \cup {TagC} :
       /\ t \in DOMAIN tagTimestamps => t \in DOMAIN tagTimestamps'
       /\ store[TimestampKey(t)].type = "string"
            => store'[TimestampKey(t)].type = "string"]_vars

\* C25.  Connections are opened once: over the life of the process connect()
\* is called at most once on the read client and at most once on the write
\* client (ensureConnected calls both together), also when operations start
\* before the first connect has completed.
C25_ConnectOnce == connectCalls <= 1

\* ----- reads and writes of two keys
KeysNext ==
  \/ \E p \in Procs, k \in CacheKeys : GetInvoke(p, k, << >>)
  \/ \E p \in Procs : GetAfterConnect(p)
  \/ \E p \in Procs : GetReply(p)
  \/ \E p \in Procs, k \in CacheKeys : SetInvoke(p, k)
  \/ \E p \in Procs : SetAfterConnect(p)
  \/ \E p \in Procs : \E entry \in TagEntryInputs(Now) : SetEntryReady(p, entry)
  \/ \E p \in Procs : SetFinish(p)
  \/ \E p \in Procs : PipelineStep(p)

KeysSpec == Init /\ [][KeysNext]_vars

\* C26.  Keys do not contend: a get that waits, waits on a set of its own key
\* that is in flight; a set waits on no other call, and once its entry is
\* ready its batch is on the write connection.
C26_KeysDoNotContend ==
  \A p \in Procs :
    /\ pc[p] = "g_wait" =>
         /\ loc[p].waitOn \in Procs
         /\ InFlight(loc[p].waitOn)
         /\ loc[loc[p].waitOn].op = "set"
         /\ loc[loc[p].waitOn].key = loc[p].key
    /\ loc[p].op = "set" => loc[p].waitOn = 0
    /\ pc[p] = "s_exec" => p \in Range(writeQ)

\* The second call, a get of w2, has returned while the first, a set of w1,
\* still awaits its entry.
C26_Witness ==
  /\ budget = MaxEvents - 2
  /\ loc[1].op = "set" /\ loc[1].key = "w1" /\ pc[1] = "s_entry"
  /\ "w1" \in DOMAIN pendingSets
  /\ loc[2].op = "get" /\ loc[2].key = "w2" /\ pc[2] = "done"
  /\ result[2].kind = "miss"

\* The commands an updateTags call owes for its i-th tag: the delete of each
\* member key read for it, the delete of its member set, the write of its
\* timestamp record.
OwedCmds(p, i) ==
  {CmdDel(m) : m \in obs[p].read[i]}
    \cup {CmdDel(TagKey(loc[p].tags[i])),
          CmdSet(TimestampKey(loc[p].tags[i]), TimestampText(loc[p].now))}

\* C27.  One batch per invalidation: an updateTags call sends at most one
\* batch and nothing of it reaches the store before the batch is sent; when it
\* has resolved without a failure it has sent exactly one batch, applied in
\* full, that holds for every tag the commands owed for it and nothing else.
C27_OneBatch ==
  \A p \in Procs :
    loc[p].op = "updateTags" =>
      /\ obs[p].batches <= 1
      /\ obs[p].batches = 0 => loc[p].applied = 0 /\ p \notin Range(writeQ)
      /\ pc[p] = "done" /\ ~loc[p].err =>
           /\ obs[p].batches = 1
           /\ loc[p].applied = Len(loc[p].cmds)
           /\ Len(obs[p].read) = Len(loc[p].tags)
           /\ Range(loc[p].cmds) = UNION {OwedCmds(p, i) : i \in 1..Len(loc[p].tags)}

\* An updateTags of two tags has resolved; it read a member for each.
C27_Witness ==
  \E p \in Procs :
    /\ loc[p].op = "updateTags" /\ pc[p] = "done" /\ ~loc[p].err
    /\ Len(loc[p].tags) = 2
    /\ \A i \in 1..2 : obs[p].read[i] # {}

\* A step of a get call: its start, the end of its connect, the store's
\* answer to its read, or the failure of its read.
GetStep ==
  \/ \E p \in Procs, k \in CallKeys, soft \in SoftTagLists : GetInvoke(p, k, soft)
  \/ \E p \in Procs : GetAfterConnect(p)
  \/ \E p \in Procs : GetReply(p)
  \/ \E p \in Procs : loc[p].op = "get" /\ ReadFail(p)

\* C28.  Read has no side effects: no step of a get, whether the get hits,
\* misses or fails, changes a store record, the process's tag-timestamp map
\* or the pending-write registry.
C28_ReadHasNoEffect ==
  [][GetStep => UNCHANGED <<store, tagTimestamps, pendingSets>>]_vars

\* A get has returned a miss for a record the store holds (past its
\* revalidate window, or malformed).
C28_Witness ==
  \E p \in Procs :
    /\ GetDone(p) /\ result[p].kind = "miss"
    /\ store[EntryKey(loc[p].key)].type = "string"

\* The producer of set call p rejected, or draining its stream failed: the
\* call failed before it built a batch.
FailedBeforeBatch(p) ==
  loc[p].op = "set" /\ loc[p].err /\ loc[p].cmds = << >>

\* C29.  A write that fails before its batch leaves the store untouched: a
\* set whose producer rejects or whose stream fails has no batch on the write
\* connection and no command applied, the step at which it fails and the step
\* at which it finishes leave every store record as it is, and the call
\* resolves.
C29_FailedWriteNoEffect ==
  /\ [](\A p \in Procs :
          FailedBeforeBatch(p) =>
            /\ p \notin Range(writeQ)
            /\ loc[p].applied = 0
            /\ pc[p] \in {"s_fin", "done"}
            /\ pc[p] = "done" => result[p] = Resolved)
  /\ [][(\E p \in Procs :
           SetProducerFail(p) \/ (FailedBeforeBatch(p) /\ SetFinish(p)))
        => store' = store]_vars

\* A set has resolved after its producer failed, while the store holds the
\* entry an earlier set wrote for the key and a member set that lists it.
C29_Witness ==
  \E p \in Procs :
    /\ SetDone(p) /\ FailedBeforeBatch(p) /\ result[p] = Resolved
    /\ store[EntryKey(loc[p].key)].type = "string"
    /\ \E t \in Tags : EntryKey(loc[p].key) \in store[TagKey(t)].members

\* ----- writes that follow an invalidation of their tag
\* The entries handed to set, both tagged TagB: one carries a timestamp older
\* than any invalidation, one the time of the call and a short revalidate
\* window.
LateEntryInputs(now) ==
  {[value |-> PayloadA, tags |-> <<TagB>>, stale |-> FALSE,
    timestamp |-> now - OldSeconds * MsPerSecond,
    expire |-> LongSeconds, revalidate |-> LongSeconds],
   [value |-> PayloadB, tags |-> <<TagB>>, stale |-> FALSE, timestamp |-> now,
    expire |-> LongSeconds, revalidate |-> ShortSeconds]}

LateNext ==
  \/ \E d \in TickSteps : Tick(d)
  \/ \E p \in Procs, k \in CallKeys : GetInvoke(p, k, <<TagB>>)
  \/ \E p \in Procs : GetAfterConnect(p)
  \/ \E p \in Procs : GetReply(p)
  \/ \E p \in Procs, k \in CallKeys : SetInvoke(p, k)
  \/ \E p \in Procs : SetAfterConnect(p)
  \/ \E p \in Procs : \E entry \in LateEntryInputs(Now) : SetEntryReady(p, entry)
  \/ \E p \in Procs : SetFinish(p)
  \/ \E p \in Procs : PipelineStep(p)
  \/ \E p \in Procs : UpdInvoke(p, <<TagB>>)
  \/ \E p \in Procs : UpdAfterConnect(p)
  \/ \E p \in Procs : UpdSmembersReply(p)

LateSpec == Init /\ [][LateNext]_vars

\* C30.  Invalidation does not poison later writes: a get(k, [t]) answered by
\* the store within the revalidate window of the entry e that a set(k, e)
\* with tag t, called after updateTags([t]) had taken effect, wrote without a
\* failure (and that nothing has replaced or invalidated since) returns a hit
\* with e's payload, whatever timestamp e carries.
C30_LaterWritesServed ==
  \A p \in Procs :
    /\ GetDone(p) /\ ~loc[p].err
    /\ obs[p].expectValid /\ obs[p].afterInval /\ obs[p].fresh
    => result[p].kind = "hit" /\ result[p].entry.value = obs[p].expect

\* Such a get has returned an entry whose timestamp is older than the
\* invalidation timestamp of its tag.
C30_Witness ==
  \E p \in Procs :
    /\ GetDone(p) /\ ~loc[p].err
    /\ obs[p].expectValid /\ obs[p].afterInval /\ obs[p].fresh
    /\ result[p].kind = "hit"
    /\ TagB \in DOMAIN tagTimestamps
    /\ result[p].entry.timestamp < tagTimestamps[TagB]

\* C31.  Read termination: while the store answers and producers settle,
\* every get in flight returns; and a get that has sent its read, having
\* waited or not, never goes back to waiting on a write.
C31_ReadTerminates ==
  /\ \A p \in Procs :
       (loc[p].op = "get" /\ InFlight(p)) ~> GetDone(p)
  /\ [][\A p \in Procs :
          loc[p].op = "get" /\ pc[p] = "g_read" => pc'[p] \in {"g_read", "done"}]_vars

\* A get that waited on a set has sent its read while a set of the same key,
\* registered since, is in flight.
C31_Witness ==
  \E p, q \in Procs :
    /\ loc[p].op = "get" /\ pc[p] = "g_read" /\ loc[p].waitOn # 0
    /\ SetInFlight(q, loc[p].key)
    /\ loc[p].key \in DOMAIN pendingSets /\ pendingSets[loc[p].key] = q

\* C32.  Metadata is preserved: a hit carries the tags, stale flag,
\* timestamp, expire and revalidate of the entry that was handed to the set
\* whose record the store held; and a get that read a record that exists,
\* decodes and is within its revalidate window returns a hit whatever the
\* stale flag says.
C32_MetadataPreserved ==
  \A p \in Procs :
    /\ GetDone(p) /\ result[p].kind = "hit" =>
         /\ result[p].entry.tags = obs[p].handed.tags
         /\ result[p].entry.stale = obs[p].handed.stale
         /\ result[p].entry.timestamp = obs[p].handed.timestamp
         /\ result[p].entry.expire = obs[p].handed.expire
         /\ result[p].entry.revalidate = obs[p].handed.revalidate
    /\ GetDone(p) /\ obs[p].present /\ ~obs[p].pastRevalidate =>
         result[p].kind = "hit"

\* A get has returned an entry that was written with the stale flag set and
\* a timestamp of its own.
C32_Witness ==
  \E p \in Procs :
    /\ GetDone(p) /\ result[p].kind = "hit"
    /\ obs[p].handed.stale /\ result[p].entry.stale
    /\ obs[p].handed.timestamp = Now - OldSeconds * MsPerSecond
    /\ obs[p].handed.expire = ShortSeconds

\* C33.  Last completed write wins: a get of k invoked after the last set of
\* k resolved without a failure (no other set of k overlapped it) that
\* returns a hit returns that set's entry, never an earlier one; and the
\* entry record the store holds for a key is at all times the whole
\* serialization of one entry handed to a set.
C33_LastWriteWins ==
  /\ \A p \in Procs :
       GetDone(p) /\ ~loc[p].err /\ obs[p].expectValid =>
         /\ result[p].kind = "hit" =>
              /\ result[p].entry.value = obs[p].expect
              /\ result[p].entry.tags = loc[p].tags
              /\ result[p].entry.timestamp
                   + result[p].entry.revalidate * MsPerSecond = obs[p].until
  /\ \A k \in CacheKeys :
       store[EntryKey(k)].type = "string" /\ store[EntryKey(k)].val.kind = "json"
         => store[EntryKey(k)].val = Serialize(hist.stored[k])

\* A get has returned the untagged entry of the second of two sets of the key
\* that resolved one after the other; the first one's entry was tagged.
C33_Witness ==
  \E p \in Procs :
    /\ GetDone(p) /\ ~loc[p].err /\ obs[p].expectValid
    /\ result[p].kind = "hit" /\ result[p].entry.tags = << >>
    /\ EntryKey(loc[p].key) \in store[TagKey(TagB)].members

\* The tags a call in flight on the write connection names: those of the
\* entry a set writes, those an updateTags was called with.
CallTags(p) ==
  IF loc[p].op = "set" THEN Range(loc[p].entry.tags) ELSE Range(loc[p].tags)

\* C34.  Record kinds never share a store key, also for a tag whose name ends
\* in ":timestamp": no command of a set or updateTags call changes the
\* timestamp record of a tag the call does not name.
C34_RecordKindsApart ==
  [][\A p \in Procs, t \in Tags \cup {TagC} :
       PipelineStep(p) /\ t \notin CallTags(p)
         => store'[TimestampKey(t)] = store[TimestampKey(t)]]_vars

\* ------------------------------------------------- the benchmark routes
\* POST /api/fetch-wines, /api/fetch-wines-nocache and /api/fetch-wines-got
\* share one handler shape: parse the body, validate fetchCount and mode, run
\* fetchCount fetches in parallel or in sequence, answer with the results.
\* Here clock is performance.now() in seconds; pc, loc and result are the
\* position, the locals and the response of the POST being handled.
MaxFetches == 3
FetchCountMin == 1
FetchCountMax == 100

Routes == {"fetch-wines", "fetch-wines-nocache", "fetch-wines-got"}

\* JSON values of the body's fetchCount: absent, or a number counted in
\* halves (5 halves is 2.5), so that fractions are among the inputs.
Undefined == [t |-> "undefined", halves |-> 0]
Num(h) == [t |-> "number", halves |-> h]
Whole(n) == Num(2 * n)
FetchCountInputs ==
  {Undefined}
    \cup {Num(h) : h \in 0..(2 * MaxFetches)}
    \cup {Whole(0 - 1), Whole(FetchCountMax), Num(2 * FetchCountMax + 1),
          Whole(FetchCountMax + 1)}
ModeInputs == {"parallel", "sequential", "burst"}
\* request.json(): a JSON object, the JSON value null, or no JSON at all.
BodyInputs ==
  {[kind |-> "object", fetchCount |-> c, mode |-> m] :
     c \in FetchCountInputs, m \in ModeInputs}
    \cup {[kind |-> k, fetchCount |-> Undefined, mode |-> "burst"] :
            k \in {"null", "unparseable"}}

\* !fetchCount
Falsy(v) == v.t = "undefined" \/ v.halves = 0
\* fetchCount < n, fetchCount > n (false when fetchCount is not a number)
LessThan(v, n) == v.t = "number" /\ v.halves < 2 * n
GreaterThan(v, n) == v.t = "number" /\ v.halves > 2 * n
\* Array.from({ length: fetchCount }): the length is fetchCount cut to a whole
\* number, nothing below zero.
ToLength(v) ==
  IF v.t # "number" \/ v.halves <= 0 THEN 0 ELSE v.halves \div 2
\* i < fetchCount, the test of the sequential loop
LoopTest(i, v) == v.t = "number" /\ 2 * i < v.halves

PerformanceNow == clock * MsPerSecond

NoFetch == [index |-> 0 - 1]
\* performSingleFetch up to its await: startTime is taken and the fetch is on
\* its way.
PerformSingleFetchCall(index, requestStart) ==
  [index |-> index, startTime |-> PerformanceNow - requestStart,
   state |-> "pending", ok |-> FALSE, result |-> NoFetch, trace |-> NoFetch]
\* performSingleFetch from the end of the fetch on: ok tells whether the fetch
\* (and response.ok, response.json()) went well or threw.
PerformSingleFetchReturn(pr, route, requestStart, ok) ==
  LET endTime == PerformanceNow - requestStart
      duration == endTime - pr.startTime
      cachedAt == IF ok /\ route # "fetch-wines-nocache" THEN Now ELSE 0
  IN [pr EXCEPT
        !.state = "settled", !.ok = ok,
        !.result = [index |-> pr.index, latency |-> duration,
                    cachedAt |-> cachedAt, success |-> ok],
        !.trace = [name |-> <<"fetch-", pr.index + 1>>, index |-> pr.index,
                   startTime |-> pr.startTime, endTime |-> endTime,
                   duration |-> duration, success |-> ok]]

NoPost ==
  [op |-> "POST", route |-> "", body |-> [kind |-> "none"],
   fetchCount |-> Undefined, mode |-> "", requestStart |-> 0,
   promises |-> << >>, results |-> << >>, traces |-> << >>, i |-> 0]

BadRequest(msg) == [kind |-> "response", status |-> 400, error |-> msg]
ServerError == [kind |-> "response", status |-> 500, error |-> "Error"]
Ok(l) ==
  [kind |-> "response", status |-> 200, results |-> l.results,
   traces |-> l.traces, totalLatency |-> PerformanceNow - l.requestStart,
   mode |-> l.mode, fetchCount |-> l.fetchCount]

BenchUnchanged ==
  UNCHANGED <<store, connected, connectCalls, tagTimestamps, pendingSets,
              readQ, writeQ, obs, hist>>

BenchInit == Init

\* Time passes.
BenchTick ==
  /\ budget > 0
  /\ budget' = budget - 1
  /\ clock' = clock + 1
  /\ UNCHANGED <<pc, loc, result>>
  /\ BenchUnchanged

\* A POST arrives at one of the routes.
PostInvoke(p, route, body) ==
  /\ \A q \in Procs : pc[q] = "idle"
  /\ CanInvoke(p)
  /\ budget' = budget - 1
  /\ pc' = [pc EXCEPT ![p] = "p_body"]
  /\ loc' = [loc EXCEPT ![p] = [NoPost EXCEPT !.route = route, !.body = body]]
  /\ UNCHANGED <<clock, result>>
  /\ BenchUnchanged

\* request.json(), the destructuring of the body and the two checks.
PostValidate(p) ==
  /\ pc[p] = "p_body"
  /\ LET body == loc[p].body
         fetchCount == body.fetchCount
         mode == body.mode
     IN IF body.kind \in {"null", "unparseable"}
        THEN /\ result' = [result EXCEPT ![p] = ServerError]
             /\ pc' = [pc EXCEPT ![p] = "done"]
             /\ loc' = loc
        ELSE IF \/ Falsy(fetchCount)
                \/ LessThan(fetchCount, FetchCountMin)
                \/ GreaterThan(fetchCount, FetchCountMax)
        THEN /\ result' = [result EXCEPT ![p] =
                             BadRequest("fetchCount must be between 1 and 100")]
             /\ pc' = [pc EXCEPT ![p] = "done"]
             /\ loc' = loc
        ELSE IF mode # "parallel" /\ mode # "sequential"
        THEN /\ result' = [result EXCEPT ![p] =
                             BadRequest("mode must be 'parallel' or 'sequential'")]
             /\ pc' = [pc EXCEPT ![p] = "done"]
             /\ loc' = loc
        ELSE /\ loc' = [loc EXCEPT ![p].fetchCount = fetchCount,
                                   ![p].mode = mode,
                                   ![p].requestStart = PerformanceNow]
             /\ pc' = [pc EXCEPT ![p] = "p_run"]
             /\ result' = result
  /\ UNCHANGED <<clock, budget>>
  /\ BenchUnchanged

\* A mapper that starts the first fetch only: what the code does not do.
ParallelPromisesFirstOnly(fetchCount, requestStart) ==
  [j \in 1..(IF ToLength(fetchCount) > 0 THEN 1 ELSE 0) |->
     PerformSingleFetchCall(j - 1, requestStart)]
\* Array.from({ length: fetchCount }, (_, i) => performSingleFetch(i, ...))
ParallelPromises(fetchCount, requestStart) ==
  [j \in 1..ToLength(fetchCount) |->
     PerformSingleFetchCall(j - 1, requestStart)]

\* mode "parallel": every fetch is started, then the handler awaits them all.
PostParallelStart(p) ==
  /\ pc[p] = "p_run" /\ loc[p].mode = "parallel"
  /\ ToLength(loc[p].fetchCount) <= MaxFetches
  /\ loc' = [loc EXCEPT ![p].promises =
               ParallelPromises(loc[p].fetchCount, loc[p].requestStart)]
  /\ pc' = [pc EXCEPT ![p] = "p_all"]
  /\ UNCHANGED <<clock, budget, result>>
  /\ BenchUnchanged

\* One of the fetches in flight ends, well or not.
FetchSettle(p, j, ok) ==
  /\ pc[p] = "p_all"
  /\ j \in 1..Len(loc[p].promises)
  /\ loc[p].promises[j].state = "pending"
  /\ loc' = [loc EXCEPT ![p].promises[j] =
               PerformSingleFetchReturn(@, loc[p].route, loc[p].requestStart, ok)]
  /\ UNCHANGED <<clock, budget, pc, result>>
  /\ BenchUnchanged

\* Promise.all resolves; the response is built.
PostParallelRespond(p) ==
  /\ pc[p] = "p_all"
  /\ \A j \in 1..Len(loc[p].promises) : loc[p].promises[j].state = "settled"
  /\ LET l == [loc[p] EXCEPT
                 !.results = [j \in 1..Len(loc[p].promises) |->
                                loc[p].promises[j].result],
                 !.traces = [j \in 1..Len(loc[p].promises) |->
                               loc[p].promises[j].trace]]
     IN /\ loc' = [loc EXCEPT ![p] = l]
        /\ result' = [result EXCEPT ![p] = Ok(l)]
  /\ pc' = [pc EXCEPT ![p] = "done"]
  /\ UNCHANGED <<clock, budget>>
  /\ BenchUnchanged

\* The loop starts fetch i and awaits it.
PostSeqStart(p) ==
  /\ pc[p] = "p_run" /\ loc[p].mode = "sequential"
  /\ LoopTest(loc[p].i, loc[p].fetchCount)
  /\ loc[p].i < MaxFetches
  /\ loc' = [loc EXCEPT ![p].promises =
               Append(@, PerformSingleFetchCall(loc[p].i, loc[p].requestStart))]
  /\ pc' = [pc EXCEPT ![p] = "p_seq"]
  /\ UNCHANGED <<clock, budget, result>>
  /\ BenchUnchanged

\* The awaited fetch ends; result and trace are pushed, i++.
PostSeqSettle(p, ok) ==
  /\ pc[p] = "p_seq"
  /\ LET j == Len(loc[p].promises)
         pr == PerformSingleFetchReturn(loc[p].promises[j], loc[p].route,
                                        loc[p].requestStart, ok)
     IN loc' = [loc EXCEPT ![p].promises[j] = pr,
                           ![p].results = Append(@, pr.result),
                           ![p].traces = Append(@, pr.trace),
                           ![p].i = @ + 1]
  /\ pc' = [pc EXCEPT ![p] = "p_run"]
  /\ UNCHANGED <<clock, budget, result>>
  /\ BenchUnchanged

\* The loop is over; the response is built.
PostSeqRespond(p) ==
  /\ pc[p] = "p_run" /\ loc[p].mode = "sequential"
  /\ ~LoopTest(loc[p].i, loc[p].fetchCount)
  /\ result' = [result EXCEPT ![p] = Ok(loc[p])]
  /\ pc' = [pc EXCEPT ![p] = "done"]
  /\ UNCHANGED <<clock, budget, loc>>
  /\ BenchUnchanged

BenchNext ==
  \/ BenchTick
  \/ \E p \in Procs, route \in Routes, body \in BodyInputs :
       PostInvoke(p, route, body)
  \/ \E p \in Procs : PostValidate(p)
  \/ \E p \in Procs : PostParallelStart(p)
  \/ \E p \in Procs, j \in 1..MaxFetches, ok \in BOOLEAN : FetchSettle(p, j, ok)
  \/ \E p \in Procs : PostParallelRespond(p)
  \/ \E p \in Procs : PostSeqStart(p)
  \/ \E p \in Procs, ok \in BOOLEAN : PostSeqSettle(p, ok)
  \/ \E p \in Procs : PostSeqRespond(p)

BenchSpec == BenchInit /\ [][BenchNext]_vars

\* ----- the claims on the benchmark routes
Post(p) == loc[p].op = "POST"
Answered(p) == Post(p) /\ pc[p] = "done"
AllSettled(prs) == \A j \in 1..Len(prs) : prs[j].state = "settled"

\* In sequential mode each fetch starts no earlier than the one before it
\* ended, and at most the last fetch started is still on its way.
SeqOrdered(p) ==
  LET prs == loc[p].promises
  IN loc[p].mode = "sequential" =>
       /\ \A j \in 1..(Len(prs) - 1) :
            /\ prs[j].state = "settled"
            /\ prs[j + 1].startTime >= prs[j].trace.endTime
       /\ \A j \in 1..(Len(loc[p].traces) - 1) :
            loc[p].traces[j + 1].startTime >= loc[p].traces[j].endTime
       /\ pc[p] = "done" /\ result[p].status = 200 =>
            \A j \in 1..(Len(result[p].traces) - 1) :
              result[p].traces[j + 1].startTime >= result[p].traces[j].endTime

\* In parallel mode, once the handler awaits, every fetch of the request has
\* been started: as many as the count (cut to a whole number) asks for, all
\* with the same start time.
ParAllStarted(p) ==
  LET prs == loc[p].promises
  IN loc[p].mode = "parallel" /\ pc[p] \in {"p_all", "done"} =>
       /\ Len(prs) = ToLength(loc[p].fetchCount)
       /\ \A i, j \in 1..Len(prs) : prs[i].startTime = prs[j].startTime
       /\ pc[p] = "done" => Len(result[p].traces) = Len(prs)

\* C35: with mode "sequential" fetch i+1 is started only after fetch i has
\* finished, so that for all i trace i+1 starts no earlier than trace i ends;
\* with mode "parallel" all the fetches are started before the handler awaits
\* any of them, and none is started later.
C35_Scheduling ==
  /\ [](\A p \in Procs : Post(p) => SeqOrdered(p) /\ ParAllStarted(p))
  /\ [][\A p \in Procs :
          Post(p) /\ Len(loc'[p].promises) > Len(loc[p].promises)
            => /\ AllSettled(loc[p].promises)
               /\ loc[p].mode = "parallel" =>
                    /\ pc[p] = "p_run" /\ pc'[p] = "p_all"
                    /\ Len(loc'[p].promises) = ToLength(loc[p].fetchCount)]_vars

\* A sequential request answered with two traces or more, time having passed
\* during the first fetch.
C35_Witness == \E p \in Procs :
  /\ Answered(p) /\ loc[p].mode = "sequential"
  /\ result[p].status = 200
  /\ Len(result[p].traces) >= 2
  /\ result[p].traces[1].endTime > result[p].traces[1].startTime
  /\ result[p].traces[2].startTime >= result[p].traces[1].endTime

\* A request that passed both checks of the handler.
PassedChecks(p) == Post(p) /\ loc[p].mode \in {"parallel", "sequential"}

\* C36: every request that passes validation, in both modes and whatever
\* fetches fail, is answered with status 200, exactly fetchCount results and
\* fetchCount traces, results[i].index = traces[i].index = i; a fetch that
\* failed is recorded with success false and cachedAt 0, one that went well
\* with success true, and every fetch started has ended.
C36_ResultShape == \A p \in Procs :
  PassedChecks(p) /\ pc[p] = "done" =>
    /\ result[p].status = 200
    /\ 2 * Len(result[p].results) = loc[p].fetchCount.halves
    /\ 2 * Len(result[p].traces) = loc[p].fetchCount.halves
    /\ Len(loc[p].promises) = Len(result[p].results)
    /\ \A j \in 1..Len(result[p].results) :
         /\ result[p].results[j].index = j - 1
         /\ j <= Len(result[p].traces) => result[p].traces[j].index = j - 1
         /\ j <= Len(loc[p].promises) =>
              /\ loc[p].promises[j].state = "settled"
              /\ result[p].results[j].success = loc[p].promises[j].ok
              /\ ~loc[p].promises[j].ok => result[p].results[j].cachedAt = 0

\* The body's fetchCount is missing, or a number below 1 (0 included) or
\* above 100.
FetchCountRefusable(body) ==
  \/ body.kind # "object"
  \/ body.fetchCount.t = "undefined"
  \/ body.fetchCount.halves < 2 * FetchCountMin
  \/ body.fetchCount.halves > 2 * FetchCountMax
ModeRefusable(body) ==
  body.kind # "object" \/ body.mode \notin {"parallel", "sequential"}

\* C37: a POST whose fetchCount is missing, 0, below 1 or above 100, and a
\* POST whose mode is neither "parallel" nor "sequential", is answered with
\* status 400 and no fetch is made for it; a POST with a fetchCount from 1 to
\* 100 and a valid mode is let through to the fetches.
C37_InputValidation == \A p \in Procs :
  Post(p) /\ pc[p] # "p_body" =>
    IF FetchCountRefusable(loc[p].body) \/ ModeRefusable(loc[p].body)
    THEN /\ pc[p] = "done"
         /\ result[p].status = 400
         /\ loc[p].promises = << >>
    ELSE /\ PassedChecks(p)
         /\ pc[p] = "done" => result[p].status = 200

====
